---- MODULE Spec2Model ----
(***************************************************************************)
(* CompressBot-Optimized: the compression job aggregate (CompressionJob),  *)
(* the orchestrator's process_compression_request and the Telegram         *)
(* storage / notification services it is wired to.                         *)
(*                                                                         *)
(* One request is followed from the construction of its job to the return  *)
(* (or the exception) of process_compression_request.  Every await of the  *)
(* coroutine is one action: the capability call completes, and the         *)
(* synchronous code up to the next await runs with it.                     *)
(***************************************************************************)
EXTENDS Integers, Sequences, FiniteSets, TLC

(* ----------------------------- bounds ---------------------------------- *)
\* uuid4() is modelled as a choice among MaxJobId fresh identifiers
MaxJobId == 2

(* ----------------------------- inputs ---------------------------------- *)
None == "<None>"
NoPath == <<>>
FileSizes == {-1, 0, 1, 3, 1000000}
FileNames == {None, "", "clip.mp4"}
Strategies == {"size_reduction", "quality_preservation", "balanced"}
\* str(e) of an exception raised by a repository call; may be empty
ErrMessages == {"", "repository unavailable"}
JobIds == 1..MaxJobId

\* exact rationals stand for the floats of the ratio fields
Ratio(n, d) == [num |-> n, den |-> d]
RatioEq(a, b) == a.num * b.den = b.num * a.den

\* Python truthiness of an Optional[str]
Truthy(s) == s # None /\ s # ""
PathTruthy(p) == p # NoPath

(* --------------------------- domain entities --------------------------- *)
PENDING == "pending"
DOWNLOADING == "downloading"
COMPRESSING == "compressing"
UPLOADING == "uploading"
COMPLETED == "completed"
FAILED == "failed"
CANCELLED == "cancelled"
CompressionStatus ==
    {PENDING, DOWNLOADING, COMPRESSING, UPLOADING, COMPLETED, FAILED, CANCELLED}

\* mutant: the size check written as file_size < 0
MediaFileValid_ZeroAllowed(file_id, file_size, mime_type) ==
    /\ Truthy(file_id)
    /\ ~(file_size < 0)
    /\ Truthy(mime_type)

\* MediaFile.__post_init__: the construction succeeds iff this holds
MediaFileValid(file_id, file_size, mime_type) ==
    /\ Truthy(file_id)
    /\ ~(file_size <= 0)
    /\ Truthy(mime_type)

MediaFile(file_id, filename, file_size) ==
    [file_id |-> file_id, filename |-> filename, file_size |-> file_size,
     mime_type |-> "video/mp4", user_id |-> 7]

CompressionOptions(strategy) == [quality_level |-> "medium", strategy |-> strategy]

\* CompressionJob(...) with the dataclass defaults; created_at = utcnow()
CompressionJob(job_id, media_file, options, status, original_size, now) ==
    [job_id |-> job_id, media_file |-> media_file, compression_options |-> options,
     status |-> status, progress |-> 0, created_at |-> now, started_at |-> 0,
     completed_at |-> 0, error_message |-> None, output_file_path |-> NoPath,
     original_size |-> original_size, compressed_size |-> 0,
     compression_ratio |-> Ratio(0, 1)]

StartCompression(j, now) ==
    [j EXCEPT !.status = COMPRESSING, !.started_at = now]

\* complete_compression raises ZeroDivisionError at its division (line 115)
CompleteRaises(j) == j.original_size = 0

\* mutant: the status assignment of line 111 is missing
CompleteCompression_KeepsStatus(j, output_path, compressed_size, now) ==
    [j EXCEPT !.completed_at = now,
              !.output_file_path = output_path,
              !.compressed_size = compressed_size,
              !.compression_ratio = Ratio(j.original_size - compressed_size, j.original_size),
              !.progress = 100]

\* the assignments of lines 111-114 precede the division: they stay when it raises
CompleteCompression(j, output_path, compressed_size, now) ==
    LET assigned == [j EXCEPT !.status = COMPLETED,
                              !.completed_at = now,
                              !.output_file_path = output_path,
                              !.compressed_size = compressed_size]
    IN  IF CompleteRaises(j) THEN assigned
        ELSE [assigned EXCEPT
                !.compression_ratio = Ratio(j.original_size - compressed_size, j.original_size),
                !.progress = 100]

\* mutant: the status assignment of line 120 is missing
FailCompression_KeepsStatus(j, error_message, now) ==
    [j EXCEPT !.completed_at = now, !.error_message = error_message]

\* mutant: the failure is recorded without its message
FailCompression_NoMessage(j, error_message, now) ==
    [j EXCEPT !.status = FAILED, !.completed_at = now]

FailCompression(j, error_message, now) ==
    [j EXCEPT !.status = FAILED, !.completed_at = now, !.error_message = error_message]

Max(a, b) == IF a >= b THEN a ELSE b
Min(a, b) == IF a <= b THEN a ELSE b

\* mutant: the value is stored without clamping
UpdateProgress_NoClamp(j, progress) ==
    [j EXCEPT !.progress = progress]

UpdateProgress(j, progress) ==
    [j EXCEPT !.progress = Max(0, Min(100, progress))]

\* mutant: the check of the failure case is missing
ResultValid_NoFailureCheck(success, output_path, error_message) ==
    ~(success /\ ~PathTruthy(output_path))

\* CompressionResult.__post_init__: the construction succeeds iff this holds
ResultValid(success, output_path, error_message) ==
    /\ ~(success /\ ~PathTruthy(output_path))
    /\ ~(~success /\ ~Truthy(error_message))

CompressionResult(success, job_id, output_path, original_size, compressed_size, compression_ratio, error_message) ==
    [success |-> success, job_id |-> job_id, output_path |-> output_path,
     original_size |-> original_size, compressed_size |-> compressed_size,
     compression_ratio |-> compression_ratio, error_message |-> error_message]

(* ------------------------ compression backend -------------------------- *)
\* the largest power of two strictly below n (n >= 2)
RECURSIVE Pow2Below(_)
Pow2Below(n) == IF n <= 2 THEN 1 ELSE 2 * Pow2Below((n + 1) \div 2)

\* int(x * 0.7) in double precision.  The double for 0.7 (which is also what
\* 1 - 0.3 evaluates to) lies 2^-52 / 5 below 7/10, so when 7x/10 is a whole
\* number q the product rounds to the double just below q as soon as
\* x / 5 exceeds half the spacing of the doubles below q; int() then gives q - 1.
IntTimes07(x) ==
    LET q == (7 * x) \div 10 IN
    IF x > 0 /\ x % 10 = 0 /\ 2 * x > 5 * Pow2Below(q) THEN q - 1 ELSE q

\* int(x * (1 - r)) in double precision, r one of 0.5, 0.2, 0.3: x * 0.5 is
\* exact, and the double for 1 - 0.2 lies above 8/10, so both give the floor
TruncatedProduct(x, r) ==
    IF r = Ratio(3, 10) THEN IntTimes07(x)
    ELSE (x * (r.den - r.num)) \div r.den

VideoStrategyRatio(strategy) ==
    IF strategy = "size_reduction" THEN Ratio(5, 10)
    ELSE IF strategy = "quality_preservation" THEN Ratio(2, 10)
    ELSE Ratio(3, 10)

VideoCompress(media_file, options) ==
    LET r == VideoStrategyRatio(options.strategy) IN
    CompressionResult(TRUE, media_file.file_id,
                      <<"/tmp/compressed_", 0, media_file.filename>>,
                      media_file.file_size,
                      TruncatedProduct(media_file.file_size, r),
                      r, None)

\* the values VideoCompressionService.compress hands to its progress callback
VideoProgressReports == [i \in 1..21 |-> 5 * (i - 1)]

(* ------------------------ Telegram services ---------------------------- *)
\* TelegramFileStorageService.download_file: transferRaises is download_media
\* raising, existsAfter is os.path.exists(destination) after the attempt
DownloadFile(transferRaises, existsAfter) ==
    IF transferRaises THEN FALSE ELSE existsAfter

\* TelegramNotificationService.send_*: does the call raise to its caller when
\* app.send_message raises?  The try/except swallows it.
\* mutant: no try/except around app.send_message
NotificationRaises_Propagates(sendRaises) == sendRaises

NotificationRaises(sendRaises) == FALSE

\* send_completion_notification sends only for a success result
CompletionMessageSent(result) == result.success

(* ----------------------------- state ----------------------------------- *)
VARIABLES
    pc,             \* the await process_compression_request is suspended in
    media,          \* the request's MediaFile
    options,        \* the request's CompressionOptions
    job,            \* the CompressionJob object the orchestrator holds
    temp_path,      \* the local temp_path; NoPath while it is unbound
    files,          \* the paths that exist on the local disk
    exc,            \* str(e) of the exception the except block handles
    repo,           \* what the job repository persisted, in order
    notifications,  \* the notification service calls, in order
    calls,          \* every capability call issued so far, in order
    result,         \* the local variable result (the success CompressionResult)
    cleaned,        \* _cleanup_temp_files was entered
    warned,         \* logger.warning("Failed to cleanup temp file ...") was issued
    outcome,        \* how the operation under way ended
    invoked,        \* the last CompressionJob method / progress sink call, with its arguments
    user_context,   \* TelegramBotController.user_context: user id -> stored selection
    handlers,       \* the controller's handler coroutines, in the order they were started
    started,        \* the process_compression_request calls the controller made, in order
    received,       \* the messages the bot received, in order
    services,       \* DIContainer._services
    factories,      \* DIContainer._factories
    singletons,     \* DIContainer._singletons
    invocations     \* how often get() has called the factory registered under each name

vars == <<pc, media, options, job, temp_path, files, exc, repo, notifications,
          calls, result, cleaned, warned, outcome, invoked,
          user_context, handlers, started, received,
          services, factories, singletons, invocations>>

\* the controller and the container, which the orchestrator never touches
controllerVars == <<user_context, handlers, started, received>>
containerVars == <<services, factories, singletons, invocations>>

\* Python dicts as functions: no key, `k in d`, d[k] = v, del d[k]
EmptyDict == [k \in {} |-> None]
HasKey(d, k) == k \in DOMAIN d
Put(d, k, v) == [x \in DOMAIN d \cup {k} |-> IF x = k THEN v ELSE d[x]]
Del(d, k) == [x \in DOMAIN d \ {k} |-> d[x]]
Users == {7}

\* TelegramBotController.__init__: no selection stored, no handler running
ControllerIdle ==
    /\ user_context = EmptyDict
    /\ handlers = <<>>
    /\ started = <<>>
    /\ received = <<>>

\* DIContainer.__init__: three empty dicts
ContainerEmpty ==
    /\ services = EmptyDict
    /\ factories = EmptyDict
    /\ singletons = EmptyDict
    /\ invocations = EmptyDict

NoMedia == MediaFile(None, None, 0)
NoOptions == CompressionOptions(None)
NoJob == CompressionJob(0, NoMedia, NoOptions, "none", 0, 0)
NoResult == CompressionResult(FALSE, 0, NoPath, 0, 0, Ratio(0, 1), None)
Running == [kind |-> "running", result |-> NoResult, error |-> None, msg |-> None]
Returned(r) == [kind |-> "returned", result |-> r, error |-> None, msg |-> None]
Raised(type, m) == [kind |-> "raised", result |-> NoResult, error |-> type, msg |-> m]

NoOp == [name |-> "none", progress |-> 0, size |-> 0, message |-> None]
Op(name, progress, size, message) ==
    [name |-> name, progress |-> progress, size |-> size, message |-> message]

\* datetime.utcnow() as a logical clock: it advances with every call issued
Now == Len(calls) + 1

Init ==
    /\ pc = "idle"
    /\ media = NoMedia
    /\ options = NoOptions
    /\ job = NoJob
    /\ temp_path = NoPath
    /\ files = {}
    /\ exc = None
    /\ repo = <<>>
    /\ notifications = <<>>
    /\ calls = <<>>
    /\ result = NoResult
    /\ cleaned = FALSE
    /\ warned = FALSE
    /\ outcome = Running
    /\ invoked = NoOp
    /\ ControllerIdle
    /\ ContainerEmpty

(* ------------------- CompressionOrchestrator helpers ------------------- *)
\* mutant: the path is built from the filename alone
TempPath_NoJobId(job_id, filename) ==
    <<"/tmp/", 0, IF Truthy(filename) THEN filename ELSE "file">>

\* f"/tmp/{job.job_id}_{media_file.filename or 'file'}"
TempPath(job_id, filename) ==
    <<"/tmp/", job_id, IF Truthy(filename) THEN filename ELSE "file">>

\* mutant: the result is built without the job's id
MockResult_NoJobId(j, media_file, path) ==
    CompressionResult(TRUE, 0, path, media_file.file_size,
                      IntTimes07(media_file.file_size), Ratio(3, 10), None)

\* the mock result the orchestrator builds in place of a backend call
MockResult(j, media_file, path) ==
    CompressionResult(TRUE, j.job_id, path, media_file.file_size,
                      IntTimes07(media_file.file_size), Ratio(3, 10), None)

\* _cleanup_temp_files on one path: the files left on disk.  removeOk is
\* os.remove succeeding; its failure is logged and swallowed.
CleanupTempFiles(fs, path, removeOk) ==
    IF PathTruthy(path) /\ path \in fs /\ removeOk THEN fs \ {path} ELSE fs

\* os.remove raised inside _cleanup_temp_files: the except branch logs a warning
CleanupWarns(fs, path, removeOk) == PathTruthy(path) /\ path \in fs /\ ~removeOk

\* save_job / update_job succeeding: the repository holds the job as it is now
Persist(op) == Append(repo, [op |-> op, job |-> job])

Notification(kind, progress, message, delivered) ==
    [kind |-> kind, user_id |-> media.user_id, progress |-> progress,
     message |-> message, delivered |-> delivered]

\* except Exception as e: job.fail_compression(str(e)), then await update_job
Handle(m) ==
    /\ job' = FailCompression(job, m, Now)
    /\ exc' = m
    /\ calls' = Append(calls, "update_job")
    /\ pc' = "fail_update"

\* mutant: _cleanup_temp_files without its try/except around os.remove
Finally_CleanupRaises(pending, removeOk) ==
    /\ pc' = "done"
    /\ IF temp_path = NoPath
         THEN /\ outcome' = Raised("UnboundLocalError", "temp_path")
              /\ UNCHANGED <<files, cleaned, warned>>
         ELSE /\ outcome' = IF CleanupWarns(files, temp_path, removeOk)
                            THEN Raised("OSError", "remove failed") ELSE pending
              /\ cleaned' = TRUE
              /\ files' = CleanupTempFiles(files, temp_path, removeOk)
              /\ warned' = CleanupWarns(files, temp_path, removeOk)

\* finally: await self._cleanup_temp_files(temp_path), then leave with
\* `pending` (the return value or the exception in flight).  Reading an
\* unbound temp_path raises UnboundLocalError in place of it.
Finally(pending, removeOk) ==
    /\ pc' = "done"
    /\ IF temp_path = NoPath
         THEN /\ outcome' = Raised("UnboundLocalError", "temp_path")
              /\ UNCHANGED <<files, cleaned, warned>>
         ELSE /\ outcome' = pending
              /\ cleaned' = TRUE
              /\ files' = CleanupTempFiles(files, temp_path, removeOk)
              /\ warned' = CleanupWarns(files, temp_path, removeOk)

(* ------------------- process_compression_request ----------------------- *)
\* lines 132-141: build the PENDING job and call save_job
Request(id, size, fname, strategy) ==
    /\ pc = "idle"
    /\ MediaFileValid("F1", size, "video/mp4")
    /\ media' = MediaFile("F1", fname, size)
    /\ options' = CompressionOptions(strategy)
    /\ job' = CompressionJob(id, media', options', PENDING, size, Now)
    /\ calls' = Append(calls, "save_job")
    /\ pc' = "save_job"
    /\ UNCHANGED <<temp_path, files, exc, repo, notifications, result, cleaned, warned, outcome, invoked>>
    /\ UNCHANGED <<controllerVars, containerVars>>

\* mutant: save_job awaited inside the try block, so its failure runs the except block
SaveJob_InsideTry(ok, m) ==
    /\ pc = "save_job"
    /\ IF ok
         THEN /\ repo' = Persist("save")
              /\ job' = [job EXCEPT !.status = DOWNLOADING]
              /\ calls' = Append(calls, "update_job")
              /\ pc' = "update_downloading"
              /\ UNCHANGED exc
         ELSE /\ Handle(m)
              /\ UNCHANGED repo
    /\ UNCHANGED <<media, options, temp_path, files, notifications, result, cleaned, warned, outcome, invoked>>
    /\ UNCHANGED <<controllerVars, containerVars>>

\* save_job completes; it is outside the try block
SaveJob(ok, m) ==
    /\ pc = "save_job"
    /\ IF ok
         THEN /\ repo' = Persist("save")
              /\ job' = [job EXCEPT !.status = DOWNLOADING]
              /\ calls' = Append(calls, "update_job")
              /\ pc' = "update_downloading"
              /\ UNCHANGED outcome
         ELSE /\ outcome' = Raised("Exception", m)
              /\ pc' = "done"
              /\ UNCHANGED <<repo, job, calls>>
    /\ UNCHANGED <<media, options, temp_path, files, exc, notifications, result, cleaned, warned, invoked>>
    /\ UNCHANGED <<controllerVars, containerVars>>

\* the DOWNLOADING update completes; then temp_path is bound and the download called
UpdateDownloading(ok, m) ==
    /\ pc = "update_downloading"
    /\ IF ok
         THEN /\ repo' = Persist("update")
              /\ temp_path' = TempPath(job.job_id, media.filename)
              /\ calls' = Append(calls, "download_file")
              /\ pc' = "download"
              /\ UNCHANGED <<job, exc>>
         ELSE /\ Handle(m)
              /\ UNCHANGED <<repo, temp_path>>
    /\ UNCHANGED <<media, options, files, notifications, result, cleaned, warned, outcome, invoked>>
    /\ UNCHANGED <<controllerVars, containerVars>>

\* mutant: a download that returned false is tried a second time
Download_RetriesOnce(transferRaises, existsAfter) ==
    /\ pc = "download"
    /\ files' = IF existsAfter THEN files \cup {temp_path} ELSE files \ {temp_path}
    /\ IF DownloadFile(transferRaises, existsAfter)
         THEN /\ job' = StartCompression([job EXCEPT !.status = COMPRESSING], Now)
              /\ calls' = Append(calls, "update_job")
              /\ pc' = "update_compressing"
              /\ UNCHANGED exc
         ELSE IF Cardinality({i \in DOMAIN calls : calls[i] = "download_file"}) < 2
         THEN /\ calls' = Append(calls, "download_file")
              /\ UNCHANGED <<job, exc, pc>>
         ELSE Handle("Failed to download file")
    /\ UNCHANGED <<media, options, temp_path, repo, notifications, result, cleaned, warned, outcome, invoked>>
    /\ UNCHANGED <<controllerVars, containerVars>>

\* download_file completes
Download(transferRaises, existsAfter) ==
    /\ pc = "download"
    /\ files' = IF existsAfter THEN files \cup {temp_path} ELSE files \ {temp_path}
    /\ IF DownloadFile(transferRaises, existsAfter)
         THEN /\ job' = StartCompression([job EXCEPT !.status = COMPRESSING], Now)
              /\ calls' = Append(calls, "update_job")
              /\ pc' = "update_compressing"
              /\ UNCHANGED exc
         ELSE Handle("Failed to download file")
    /\ UNCHANGED <<media, options, temp_path, repo, notifications, result, cleaned, warned, outcome, invoked>>
    /\ UNCHANGED <<controllerVars, containerVars>>

\* the COMPRESSING update completes; the mock result is built and the job completed
UpdateCompressing(ok, m) ==
    /\ pc = "update_compressing"
    /\ IF ok
         THEN LET r == MockResult(job, media, temp_path)
                  completed == CompleteCompression(job, r.output_path, r.compressed_size, Now)
              IN
              /\ repo' = Persist("update")
              /\ result' = r
              /\ calls' = Append(calls, "update_job")
              /\ IF CompleteRaises(job)
                   THEN /\ job' = FailCompression(completed, "division by zero", Now)
                        /\ exc' = "division by zero"
                        /\ pc' = "fail_update"
                   ELSE /\ job' = completed
                        /\ pc' = "update_completed"
                        /\ UNCHANGED exc
         ELSE /\ Handle(m)
              /\ UNCHANGED <<repo, result>>
    /\ UNCHANGED <<media, options, temp_path, files, notifications, cleaned, warned, outcome, invoked>>
    /\ UNCHANGED <<controllerVars, containerVars>>

\* the update of the completed job completes
UpdateCompleted(ok, m) ==
    /\ pc = "update_completed"
    /\ IF ok
         THEN /\ repo' = Persist("update")
              /\ calls' = Append(calls, "send_completion_notification")
              /\ pc' = "notify_completion"
              /\ UNCHANGED <<job, exc>>
         ELSE /\ Handle(m)
              /\ UNCHANGED repo
    /\ UNCHANGED <<media, options, temp_path, files, notifications, result, cleaned, warned, outcome, invoked>>
    /\ UNCHANGED <<controllerVars, containerVars>>

\* send_completion_notification completes; return result, through finally
NotifyCompletion(sendRaises, m, removeOk) ==
    /\ pc = "notify_completion"
    /\ notifications' = Append(notifications,
            Notification("completion", 0, None, CompletionMessageSent(result) /\ ~sendRaises))
    /\ IF NotificationRaises(sendRaises)
         THEN /\ Handle(m)
              /\ UNCHANGED <<files, cleaned, warned, outcome>>
         ELSE /\ Finally(Returned(result), removeOk)
              /\ UNCHANGED <<job, exc, calls>>
    /\ UNCHANGED <<media, options, temp_path, repo, result, invoked>>
    /\ UNCHANGED <<controllerVars, containerVars>>

\* the update of the failed job completes, inside the except block
FailUpdate(ok, m, removeOk) ==
    /\ pc = "fail_update"
    /\ IF ok
         THEN /\ repo' = Persist("update")
              /\ calls' = Append(calls, "send_error_notification")
              /\ pc' = "notify_error"
              /\ UNCHANGED <<files, cleaned, warned, outcome>>
         ELSE /\ Finally(Raised("Exception", m), removeOk)
              /\ UNCHANGED <<repo, calls>>
    /\ UNCHANGED <<media, options, job, temp_path, exc, notifications, result, invoked>>
    /\ UNCHANGED <<controllerVars, containerVars>>

\* send_error_notification completes; return the failure result, through finally
NotifyError(sendRaises, m, removeOk) ==
    /\ pc = "notify_error"
    /\ notifications' = Append(notifications, Notification("error", 0, exc, ~sendRaises))
    /\ Finally(IF NotificationRaises(sendRaises) THEN Raised("Exception", m)
               ELSE IF ResultValid(FALSE, NoPath, exc)
               THEN Returned(CompressionResult(FALSE, job.job_id, NoPath, 0, 0, Ratio(0, 1), exc))
               ELSE Raised("ValueError", "error_message is required when success is False"),
               removeOk)
    /\ UNCHANGED <<media, options, job, temp_path, exc, repo, calls, result, invoked>>
    /\ UNCHANGED <<controllerVars, containerVars>>

Next ==
    \/ \E id \in JobIds, size \in FileSizes, fname \in FileNames, strategy \in Strategies :
          Request(id, size, fname, strategy)
    \/ \E ok \in BOOLEAN, m \in ErrMessages : SaveJob(ok, m)
    \/ \E ok \in BOOLEAN, m \in ErrMessages : UpdateDownloading(ok, m)
    \/ \E transferRaises \in BOOLEAN, existsAfter \in BOOLEAN :
          Download(transferRaises, existsAfter)
    \/ \E ok \in BOOLEAN, m \in ErrMessages : UpdateCompressing(ok, m)
    \/ \E ok \in BOOLEAN, m \in ErrMessages : UpdateCompleted(ok, m)
    \/ \E sendRaises \in BOOLEAN, m \in ErrMessages, removeOk \in BOOLEAN :
          NotifyCompletion(sendRaises, m, removeOk)
    \/ \E ok \in BOOLEAN, m \in ErrMessages, removeOk \in BOOLEAN :
          FailUpdate(ok, m, removeOk)
    \/ \E sendRaises \in BOOLEAN, m \in ErrMessages, removeOk \in BOOLEAN :
          NotifyError(sendRaises, m, removeOk)

Spec == Init /\ [][Next]_vars

(* ---------------------- external cancellation -------------------------- *)
\* A cancellation request from outside the orchestrator: it writes CANCELLED
\* into the job while process_compression_request is suspended in a call.
ExternalCancel ==
    /\ pc \notin {"idle", "done"}
    /\ job.status \notin {COMPLETED, FAILED, CANCELLED}
    /\ job' = [job EXCEPT !.status = CANCELLED]
    /\ UNCHANGED <<pc, media, options, temp_path, files, exc, repo, notifications,
                   calls, result, cleaned, warned, outcome, invoked>>
    /\ UNCHANGED <<controllerVars, containerVars>>

NextCancel ==
    \/ Next
    \/ ExternalCancel

SpecCancel == Init /\ [][NextCancel]_vars

(* -------------------- CompressionJob used on its own -------------------- *)
\* the number of method calls followed on one job
MaxJobOps == 3
\* the number of progress reports followed on one job
MaxProgressCalls == 3

ProgressInputs == {-5, 10, 50, 100, 150}
\* sizes small enough for the cross products of RatioEq
JobFileSizes == {-1, 0, 1, 3, 10}
CompressedSizes == {0, 1, 2, 7}
FailMessages == {"", "boom"}

\* CompressionJob.original_size: int = 0, the dataclass default
DefaultOriginalSize == 0

\* a PENDING job built around any MediaFile whose construction succeeds;
\* original_size is passed as process_compression_request passes it (the
\* file's size, line 137) or left at its default
InitJob ==
    /\ pc = "job"
    /\ \E id \in JobIds, size \in JobFileSizes, fname \in {None, "clip.mp4"} :
          /\ MediaFileValid("F1", size, "video/mp4")
          /\ media = MediaFile("F1", fname, size)
          /\ \E original \in {size, DefaultOriginalSize} :
                job = CompressionJob(id, media, CompressionOptions("balanced"), PENDING, original, 1)
    /\ options = CompressionOptions("balanced")
    /\ temp_path = NoPath
    /\ files = {}
    /\ exc = None
    /\ repo = <<>>
    /\ notifications = <<>>
    /\ calls = <<>>
    /\ result = NoResult
    /\ cleaned = FALSE
    /\ warned = FALSE
    /\ outcome = Running
    /\ invoked = NoOp
    /\ ControllerIdle
    /\ ContainerEmpty

JobFrame == UNCHANGED <<pc, media, options, temp_path, files, exc, repo, notifications, result, cleaned, warned, controllerVars, containerVars>>

\* job.start_compression()
JobStartCompression ==
    /\ pc = "job" /\ Len(calls) < MaxJobOps
    /\ job' = StartCompression(job, Now)
    /\ calls' = Append(calls, "start_compression")
    /\ invoked' = Op("start_compression", 0, 0, None)
    /\ outcome' = Returned(NoResult)
    /\ JobFrame

\* job.complete_compression(output_path, compressed_size)
JobCompleteCompression(size) ==
    /\ pc = "job" /\ Len(calls) < MaxJobOps
    /\ job' = CompleteCompression(job, TempPath(job.job_id, media.filename), size, Now)
    /\ calls' = Append(calls, "complete_compression")
    /\ invoked' = Op("complete_compression", 0, size, None)
    /\ outcome' = IF CompleteRaises(job) THEN Raised("ZeroDivisionError", "division by zero")
                  ELSE Returned(NoResult)
    /\ JobFrame

\* job.fail_compression(error_message)
JobFailCompression(m) ==
    /\ pc = "job" /\ Len(calls) < MaxJobOps
    /\ job' = FailCompression(job, m, Now)
    /\ calls' = Append(calls, "fail_compression")
    /\ invoked' = Op("fail_compression", 0, 0, m)
    /\ outcome' = Returned(NoResult)
    /\ JobFrame

\* job.update_progress(progress)
JobUpdateProgress(p) ==
    /\ pc = "job" /\ Len(calls) < MaxJobOps
    /\ job' = UpdateProgress(job, p)
    /\ calls' = Append(calls, "update_progress")
    /\ invoked' = Op("update_progress", p, 0, None)
    /\ outcome' = Returned(NoResult)
    /\ JobFrame

NextJob ==
    \/ JobStartCompression
    \/ \E size \in CompressedSizes : JobCompleteCompression(size)
    \/ \E m \in FailMessages : JobFailCompression(m)
    \/ \E p \in ProgressInputs : JobUpdateProgress(p)

SpecJob == InitJob /\ [][NextJob]_vars

(* ------------------ _handle_progress on an active job ------------------ *)
\* the job as it is when a backend would report progress: COMPRESSING, started
InitProgress ==
    /\ pc = "progress_idle"
    /\ \E id \in JobIds, size \in JobFileSizes :
          /\ MediaFileValid("F1", size, "video/mp4")
          /\ media = MediaFile("F1", "clip.mp4", size)
          /\ job = StartCompression(
                     CompressionJob(id, media, CompressionOptions("balanced"), COMPRESSING, size, 1), 1)
    /\ options = CompressionOptions("balanced")
    /\ temp_path = NoPath
    /\ files = {}
    /\ exc = None
    /\ repo = <<>>
    /\ notifications = <<>>
    /\ calls = <<>>
    /\ result = NoResult
    /\ cleaned = FALSE
    /\ warned = FALSE
    /\ outcome = Running
    /\ invoked = NoOp
    /\ ControllerIdle
    /\ ContainerEmpty

ProgressCalls == Cardinality({i \in DOMAIN calls : calls[i] = "update_job"})

\* _handle_progress(job, progress): update_progress, then call update_job
HandleProgress(p) ==
    /\ pc = "progress_idle" /\ ProgressCalls < MaxProgressCalls
    /\ job' = UpdateProgress(job, p)
    /\ invoked' = Op("_handle_progress", p, 0, None)
    /\ calls' = Append(calls, "update_job")
    /\ outcome' = Running
    /\ pc' = "progress_update"
    /\ UNCHANGED <<media, options, temp_path, files, exc, repo, notifications, result, cleaned, warned>>
    /\ UNCHANGED <<controllerVars, containerVars>>

\* update_job completes; on success send_progress_update is called with the raw value
ProgressUpdated(ok, m) ==
    /\ pc = "progress_update"
    /\ IF ok
         THEN /\ repo' = Persist("update")
              /\ calls' = Append(calls, "send_progress_update")
              /\ pc' = "progress_notify"
              /\ UNCHANGED outcome
         ELSE /\ outcome' = Raised("Exception", m)
              /\ pc' = "progress_idle"
              /\ UNCHANGED <<repo, calls>>
    /\ UNCHANGED <<media, options, job, temp_path, files, exc, notifications, result, cleaned, warned, invoked>>
    /\ UNCHANGED <<controllerVars, containerVars>>

\* send_progress_update completes
ProgressNotified(sendRaises, m) ==
    /\ pc = "progress_notify"
    /\ notifications' = Append(notifications,
            Notification("progress", invoked.progress, "Compression progress", ~sendRaises))
    /\ outcome' = IF NotificationRaises(sendRaises) THEN Raised("Exception", m)
                  ELSE Returned(NoResult)
    /\ pc' = "progress_idle"
    /\ UNCHANGED <<media, options, job, temp_path, files, exc, repo, calls, result, cleaned, warned, invoked>>
    /\ UNCHANGED <<controllerVars, containerVars>>

NextProgress ==
    \/ \E p \in ProgressInputs : HandleProgress(p)
    \/ \E ok \in BOOLEAN, m \in ErrMessages : ProgressUpdated(ok, m)
    \/ \E sendRaises \in BOOLEAN, m \in ErrMessages : ProgressNotified(sendRaises, m)

SpecProgress == InitProgress /\ [][NextProgress]_vars

(* --------------- two requests running concurrently --------------------- *)
\* Two process_compression_request coroutines of one orchestrator, interleaved
\* at their awaits.  Every variable that is local to a coroutine (and the
\* repository / notification records of its job) is indexed by the request;
\* the disk (files) is shared.
Requests == {1, 2}
PairFileNames == {None, "clip.mp4"}
PairFileSizes == {3}
PairErrMessage == "repository unavailable"

Upd(f, r, v) == [f EXCEPT ![r] = v]
PairNow(r) == Len(calls[r]) + 1
\* uuid4() never returns an identifier it has returned before
UsedJobIds == {job[r].job_id : r \in {q \in Requests : pc[q] # "idle"}}

InitPair ==
    /\ pc = [r \in Requests |-> "idle"]
    /\ media = [r \in Requests |-> NoMedia]
    /\ options = [r \in Requests |-> NoOptions]
    /\ job = [r \in Requests |-> NoJob]
    /\ temp_path = [r \in Requests |-> NoPath]
    /\ files = {}
    /\ exc = [r \in Requests |-> None]
    /\ repo = [r \in Requests |-> <<>>]
    /\ notifications = [r \in Requests |-> <<>>]
    /\ calls = [r \in Requests |-> <<>>]
    /\ result = [r \in Requests |-> NoResult]
    /\ cleaned = [r \in Requests |-> FALSE]
    /\ warned = [r \in Requests |-> FALSE]
    /\ outcome = [r \in Requests |-> Running]
    /\ invoked = NoOp
    /\ ControllerIdle
    /\ ContainerEmpty

PairPersist(r, op) == Upd(repo, r, Append(repo[r], [op |-> op, job |-> job[r]]))
PairCall(r, name) == Upd(calls, r, Append(calls[r], name))

PairHandle(r, m) ==
    /\ job' = Upd(job, r, FailCompression(job[r], m, PairNow(r)))
    /\ exc' = Upd(exc, r, m)
    /\ calls' = PairCall(r, "update_job")
    /\ pc' = Upd(pc, r, "fail_update")

PairFinally(r, pending, removeOk) ==
    /\ pc' = Upd(pc, r, "done")
    /\ IF temp_path[r] = NoPath
         THEN /\ outcome' = Upd(outcome, r, Raised("UnboundLocalError", "temp_path"))
              /\ UNCHANGED <<files, cleaned, warned>>
         ELSE /\ outcome' = Upd(outcome, r, pending)
              /\ cleaned' = Upd(cleaned, r, TRUE)
              /\ files' = CleanupTempFiles(files, temp_path[r], removeOk)
              /\ warned' = Upd(warned, r, CleanupWarns(files, temp_path[r], removeOk))

PairRequest(r, id, fname, size) ==
    /\ pc[r] = "idle"
    /\ id \notin UsedJobIds
    /\ MediaFileValid("F1", size, "video/mp4")
    /\ media' = Upd(media, r, MediaFile("F1", fname, size))
    /\ options' = Upd(options, r, CompressionOptions("balanced"))
    /\ job' = Upd(job, r, CompressionJob(id, media'[r], options'[r], PENDING, size, PairNow(r)))
    /\ calls' = PairCall(r, "save_job")
    /\ pc' = Upd(pc, r, "save_job")
    /\ UNCHANGED <<temp_path, files, exc, repo, notifications, result, cleaned, warned, outcome, invoked>>
    /\ UNCHANGED <<controllerVars, containerVars>>

PairSaveJob(r, ok) ==
    /\ pc[r] = "save_job"
    /\ IF ok
         THEN /\ repo' = PairPersist(r, "save")
              /\ job' = Upd(job, r, [job[r] EXCEPT !.status = DOWNLOADING])
              /\ calls' = PairCall(r, "update_job")
              /\ pc' = Upd(pc, r, "update_downloading")
              /\ UNCHANGED outcome
         ELSE /\ outcome' = Upd(outcome, r, Raised("Exception", PairErrMessage))
              /\ pc' = Upd(pc, r, "done")
              /\ UNCHANGED <<repo, job, calls>>
    /\ UNCHANGED <<media, options, temp_path, files, exc, notifications, result, cleaned, warned, invoked>>
    /\ UNCHANGED <<controllerVars, containerVars>>

PairUpdateDownloading(r, ok) ==
    /\ pc[r] = "update_downloading"
    /\ IF ok
         THEN /\ repo' = PairPersist(r, "update")
              /\ temp_path' = Upd(temp_path, r, TempPath(job[r].job_id, media[r].filename))
              /\ calls' = PairCall(r, "download_file")
              /\ pc' = Upd(pc, r, "download")
              /\ UNCHANGED <<job, exc>>
         ELSE /\ PairHandle(r, PairErrMessage)
              /\ UNCHANGED <<repo, temp_path>>
    /\ UNCHANGED <<media, options, files, notifications, result, cleaned, warned, outcome, invoked>>
    /\ UNCHANGED <<controllerVars, containerVars>>

\* a destination that is on disk before the transfer is still there after it
PairDownload(r, transferRaises, written) ==
    /\ pc[r] = "download"
    /\ LET existsAfter == written \/ temp_path[r] \in files IN
       /\ files' = IF existsAfter THEN files \cup {temp_path[r]} ELSE files
       /\ IF DownloadFile(transferRaises, existsAfter)
            THEN /\ job' = Upd(job, r, StartCompression([job[r] EXCEPT !.status = COMPRESSING], PairNow(r)))
                 /\ calls' = PairCall(r, "update_job")
                 /\ pc' = Upd(pc, r, "update_compressing")
                 /\ UNCHANGED exc
            ELSE PairHandle(r, "Failed to download file")
    /\ UNCHANGED <<media, options, temp_path, repo, notifications, result, cleaned, warned, outcome, invoked>>
    /\ UNCHANGED <<controllerVars, containerVars>>

PairUpdateCompressing(r, ok) ==
    /\ pc[r] = "update_compressing"
    /\ IF ok
         THEN LET res == MockResult(job[r], media[r], temp_path[r]) IN
              /\ repo' = PairPersist(r, "update")
              /\ result' = Upd(result, r, res)
              /\ calls' = PairCall(r, "update_job")
              /\ job' = Upd(job, r, CompleteCompression(job[r], res.output_path, res.compressed_size, PairNow(r)))
              /\ pc' = Upd(pc, r, "update_completed")
              /\ UNCHANGED exc
         ELSE /\ PairHandle(r, PairErrMessage)
              /\ UNCHANGED <<repo, result>>
    /\ UNCHANGED <<media, options, temp_path, files, notifications, cleaned, warned, outcome, invoked>>
    /\ UNCHANGED <<controllerVars, containerVars>>

PairUpdateCompleted(r, ok) ==
    /\ pc[r] = "update_completed"
    /\ IF ok
         THEN /\ repo' = PairPersist(r, "update")
              /\ calls' = PairCall(r, "send_completion_notification")
              /\ pc' = Upd(pc, r, "notify_completion")
              /\ UNCHANGED <<job, exc>>
         ELSE /\ PairHandle(r, PairErrMessage)
              /\ UNCHANGED repo
    /\ UNCHANGED <<media, options, temp_path, files, notifications, result, cleaned, warned, outcome, invoked>>
    /\ UNCHANGED <<controllerVars, containerVars>>

PairNotifyCompletion(r, sendRaises, removeOk) ==
    /\ pc[r] = "notify_completion"
    /\ notifications' = Upd(notifications, r, Append(notifications[r],
            [kind |-> "completion", delivered |-> CompletionMessageSent(result[r]) /\ ~sendRaises]))
    /\ IF NotificationRaises(sendRaises)
         THEN /\ PairHandle(r, PairErrMessage)
              /\ UNCHANGED <<files, cleaned, warned, outcome>>
         ELSE /\ PairFinally(r, Returned(result[r]), removeOk)
              /\ UNCHANGED <<job, exc, calls>>
    /\ UNCHANGED <<media, options, temp_path, repo, result, invoked>>
    /\ UNCHANGED <<controllerVars, containerVars>>

PairFailUpdate(r, ok, removeOk) ==
    /\ pc[r] = "fail_update"
    /\ IF ok
         THEN /\ repo' = PairPersist(r, "update")
              /\ calls' = PairCall(r, "send_error_notification")
              /\ pc' = Upd(pc, r, "notify_error")
              /\ UNCHANGED <<files, cleaned, warned, outcome>>
         ELSE /\ PairFinally(r, Raised("Exception", PairErrMessage), removeOk)
              /\ UNCHANGED <<repo, calls>>
    /\ UNCHANGED <<media, options, job, temp_path, exc, notifications, result, invoked>>
    /\ UNCHANGED <<controllerVars, containerVars>>

PairNotifyError(r, sendRaises, removeOk) ==
    /\ pc[r] = "notify_error"
    /\ notifications' = Upd(notifications, r, Append(notifications[r],
            [kind |-> "error", delivered |-> ~sendRaises]))
    /\ PairFinally(r, IF NotificationRaises(sendRaises) THEN Raised("Exception", PairErrMessage)
                      ELSE IF ResultValid(FALSE, NoPath, exc[r])
                      THEN Returned(CompressionResult(FALSE, job[r].job_id, NoPath, 0, 0, Ratio(0, 1), exc[r]))
                      ELSE Raised("ValueError", "error_message is required when success is False"),
                   removeOk)
    /\ UNCHANGED <<media, options, job, temp_path, exc, repo, calls, result, invoked>>
    /\ UNCHANGED <<controllerVars, containerVars>>

NextPair ==
    \/ \E r \in Requests, id \in JobIds, fname \in PairFileNames, size \in PairFileSizes :
          PairRequest(r, id, fname, size)
    \/ \E r \in Requests, ok \in BOOLEAN : PairSaveJob(r, ok)
    \/ \E r \in Requests, ok \in BOOLEAN : PairUpdateDownloading(r, ok)
    \/ \E r \in Requests, transferRaises \in BOOLEAN, written \in BOOLEAN :
          PairDownload(r, transferRaises, written)
    \/ \E r \in Requests, ok \in BOOLEAN : PairUpdateCompressing(r, ok)
    \/ \E r \in Requests, ok \in BOOLEAN : PairUpdateCompleted(r, ok)
    \/ \E r \in Requests, sendRaises \in BOOLEAN, removeOk \in BOOLEAN :
          PairNotifyCompletion(r, sendRaises, removeOk)
    \/ \E r \in Requests, ok \in BOOLEAN, removeOk \in BOOLEAN : PairFailUpdate(r, ok, removeOk)
    \/ \E r \in Requests, sendRaises \in BOOLEAN, removeOk \in BOOLEAN :
          PairNotifyError(r, sendRaises, removeOk)

SpecPair == InitPair /\ [][NextPair]_vars

(* ------------- entity constructors and the video backend --------------- *)
\* MediaFile(...), CompressionResult(...) and VideoCompressionService.compress
\* called with every combination of the inputs below; media, options and
\* result hold what the last call was given and produced
FileIds == {None, "", "F1"}
MimeTypes == {None, "", "video/mp4"}
ResultFlags == BOOLEAN
\* NoPath stands for the falsy values of output_path (None and "")
ResultPaths == {NoPath, <<"/tmp/", 1, "file">>}
ResultMessages == {None, "", "boom"}
BackendFileSizes == {1, 3, 10, 90, 1000000}
BackendStrategies == {"size_reduction", "quality_preservation", "balanced", "animation", "other"}

Call(name, args) == [name |-> name, args |-> args]

InitEntities ==
    /\ pc = "entities"
    /\ media = NoMedia
    /\ options = NoOptions
    /\ job = NoJob
    /\ temp_path = NoPath
    /\ files = {}
    /\ exc = None
    /\ repo = <<>>
    /\ notifications = <<>>
    /\ calls = <<>>
    /\ result = NoResult
    /\ cleaned = FALSE
    /\ warned = FALSE
    /\ outcome = Running
    /\ invoked = NoOp
    /\ ControllerIdle
    /\ ContainerEmpty

EntitiesFrame == UNCHANGED <<pc, job, temp_path, files, exc, repo, notifications, calls, cleaned, warned, controllerVars, containerVars>>

\* MediaFile.__post_init__: the first failing check raises ValueError
MediaFileError(file_id, file_size, mime_type) ==
    IF ~Truthy(file_id) THEN "file_id is required"
    ELSE IF file_size <= 0 THEN "file_size must be positive"
    ELSE "mime_type is required"

\* MediaFile(file_id=..., filename=..., file_size=..., mime_type=...)
ConstructMediaFile(file_id, filename, file_size, mime_type) ==
    /\ pc = "entities"
    /\ invoked' = Call("MediaFile", [file_id |-> file_id, filename |-> filename,
                                     file_size |-> file_size, mime_type |-> mime_type])
    /\ IF MediaFileValid(file_id, file_size, mime_type)
         THEN /\ media' = [MediaFile(file_id, filename, file_size) EXCEPT !.mime_type = mime_type]
              /\ outcome' = Returned(NoResult)
         ELSE /\ media' = NoMedia
              /\ outcome' = Raised("ValueError", MediaFileError(file_id, file_size, mime_type))
    /\ options' = NoOptions
    /\ result' = NoResult
    /\ EntitiesFrame

\* CompressionResult.__post_init__: the first failing check raises ValueError
ResultError(success, output_path, error_message) ==
    IF success /\ ~PathTruthy(output_path) THEN "output_path is required when success is True"
    ELSE "error_message is required when success is False"

\* CompressionResult(success=..., job_id=..., output_path=..., error_message=...)
ConstructCompressionResult(success, id, output_path, error_message) ==
    /\ pc = "entities"
    /\ invoked' = Call("CompressionResult", [success |-> success, job_id |-> id,
                                             output_path |-> output_path,
                                             error_message |-> error_message])
    /\ IF ResultValid(success, output_path, error_message)
         THEN /\ result' = CompressionResult(success, id, output_path, 0, 0, Ratio(0, 1), error_message)
              /\ outcome' = Returned(result')
         ELSE /\ result' = NoResult
              /\ outcome' = Raised("ValueError", ResultError(success, output_path, error_message))
    /\ media' = NoMedia
    /\ options' = NoOptions
    /\ EntitiesFrame

\* VideoCompressionService.compress(media_file, options) on a valid MediaFile
BackendCompress(filename, file_size, strategy) ==
    /\ pc = "entities"
    /\ MediaFileValid("F1", file_size, "video/mp4")
    /\ Truthy(strategy)
    /\ invoked' = Call("compress", [filename |-> filename, file_size |-> file_size,
                                    strategy |-> strategy])
    /\ media' = MediaFile("F1", filename, file_size)
    /\ options' = CompressionOptions(strategy)
    /\ LET r == VideoCompress(media', options') IN
       IF ResultValid(r.success, r.output_path, r.error_message)
         THEN /\ result' = r
              /\ outcome' = Returned(r)
         ELSE /\ result' = NoResult
              /\ outcome' = Raised("ValueError", ResultError(r.success, r.output_path, r.error_message))
    /\ EntitiesFrame

NextEntities ==
    \/ \E file_id \in FileIds, filename \in FileNames, file_size \in FileSizes, mime_type \in MimeTypes :
          ConstructMediaFile(file_id, filename, file_size, mime_type)
    \/ \E success \in ResultFlags, id \in JobIds, output_path \in ResultPaths, error_message \in ResultMessages :
          ConstructCompressionResult(success, id, output_path, error_message)
    \/ \E filename \in FileNames, file_size \in BackendFileSizes, strategy \in BackendStrategies :
          BackendCompress(filename, file_size, strategy)

SpecEntities == InitEntities /\ [][NextEntities]_vars

(* ------------- every operation on a job, taken together ---------------- *)
\* a job is followed either through process_compression_request, or through
\* its own methods, or through _handle_progress
InitOperations == Init \/ InitJob \/ InitProgress
NextOperations ==
    \/ Next
    \/ NextJob
    \/ NextProgress
SpecOperations == InitOperations /\ [][NextOperations]_vars

(* ------------------------ TelegramBotController ------------------------ *)
\* The controller of the application as main.py wires it, for one user: the
\* messages and button presses arrive in any order, and every handler is a
\* coroutine that other handlers interleave with at its awaits.  The Telegram
\* calls themselves (reply_text, edit_text) are taken to succeed.
\* messages and button presses of one run
MaxEvents == 3
VideoFileIds == {"F1", "F2"}
Choices == {"video_compress", "video_quality"}

\* main.py line 102: the orchestrator is constructed with job_repository=None
WiredJobRepository == None

\* process_compression_request on that orchestrator: line 141 looks save_job
\* up on None, outside the try block, before any await
WiredRequestOutcome ==
    IF WiredJobRepository = None
    THEN Raised("AttributeError", "'NoneType' object has no attribute 'save_job'")
    ELSE Running

\* the MediaFile a handler builds from a message carrying file f
MessageMediaFile(f) == MediaFile(f, "clip.mp4", 3)

\* the dicts stored in user_context (lines 265-268 and 319-323)
VideoContext(media_file, message) == [media_file |-> media_file, message |-> message]
YoutubeContext(message) == [youtube_url |-> "url", video_info |-> "info", message |-> message]

Handler(kind, user, data, media_file, message, strategy, at, error) ==
    [kind |-> kind, user |-> user, data |-> data, media_file |-> media_file,
     message |-> message, strategy |-> strategy, pc |-> at, error |-> error]

\* the strategy each button stands for (lines 376 and 397)
ChoiceStrategy(choice) ==
    IF choice = "video_compress" THEN "size_reduction" ELSE "quality_preservation"

\* the messages received and the buttons pressed so far
Events == Len(received) + Cardinality({t \in DOMAIN handlers : handlers[t].kind = "callback"})

ControllerFrame ==
    UNCHANGED <<pc, media, options, job, temp_path, files, exc, repo, notifications,
                calls, result, cleaned, warned, outcome, invoked, containerVars>>

\* _handle_video_message for a video: the selection is stored, then the
\* keyboard is sent
HandleVideoMessage(u, f) ==
    /\ Events < MaxEvents
    /\ MediaFileValid(f, 3, "video/mp4")
    /\ received' = Append(received, [kind |-> "video", user |-> u, file_id |-> f])
    /\ user_context' = Put(user_context, u, VideoContext(MessageMediaFile(f), Len(received) + 1))
    /\ UNCHANGED <<handlers, started>>
    /\ ControllerFrame

\* _handle_youtube_url, once extract_info has returned: the selection is stored
HandleYoutubeUrl(u) ==
    /\ Events < MaxEvents
    /\ received' = Append(received, [kind |-> "youtube", user |-> u, file_id |-> None])
    /\ user_context' = Put(user_context, u, YoutubeContext(Len(received) + 1))
    /\ UNCHANGED <<handlers, started>>
    /\ ControllerFrame

\* _handle_audio_message up to its await of reply_text (line 187)
HandleAudioMessage(u, f) ==
    /\ Events < MaxEvents
    /\ MediaFileValid(f, 3, "audio/ogg")
    /\ received' = Append(received, [kind |-> "audio", user |-> u, file_id |-> f])
    /\ handlers' = Append(handlers, Handler("audio", u, None, MessageMediaFile(f),
                                            Len(received) + 1, "balanced", "reply_text", None))
    /\ UNCHANGED <<user_context, started>>
    /\ ControllerFrame

\* _handle_video_message for an animation, up to the await of reply_text (line 409)
HandleAnimationMessage(u, f) ==
    /\ Events < MaxEvents
    /\ MediaFileValid(f, 3, "video/mp4")
    /\ received' = Append(received, [kind |-> "animation", user |-> u, file_id |-> f])
    /\ handlers' = Append(handlers, Handler("animation", u, None, MessageMediaFile(f),
                                            Len(received) + 1, "animation", "reply_text", None))
    /\ UNCHANGED <<user_context, started>>
    /\ ControllerFrame

\* the keyboards shown so far: one per video message, its buttons naming the file
ButtonShown(u, f) ==
    \E i \in DOMAIN received :
        received[i].kind = "video" /\ received[i].user = u /\ received[i].file_id = f

\* _handle_callback_query for data "<choice>_<f>", through
\* _handle_video_compress_callback / _handle_video_quality_callback up to the
\* first await
HandleCallbackQuery(u, choice, f) ==
    /\ ButtonShown(u, f)
    /\ Events < MaxEvents
    /\ handlers' = Append(handlers,
          IF ~HasKey(user_context, u)
          THEN Handler("callback", u, f, NoMedia, 0, ChoiceStrategy(choice), "expired", None)
          ELSE IF "media_file" \notin DOMAIN user_context[u]
          THEN Handler("callback", u, f, NoMedia, 0, ChoiceStrategy(choice), "failed", "KeyError: 'media_file'")
          ELSE Handler("callback", u, f, user_context[u].media_file, user_context[u].message,
                       ChoiceStrategy(choice), "edit_text", None))
    /\ UNCHANGED <<user_context, started, received>>
    /\ ControllerFrame

\* callback.message.edit_text (line 379 / 400) returns; _process_video_compression
\* is entered and awaits reply_text (line 409)
CallbackEdited(t) ==
    /\ handlers[t].pc = "edit_text"
    /\ handlers' = [handlers EXCEPT ![t].pc = "reply_text"]
    /\ UNCHANGED <<user_context, started, received>>
    /\ ControllerFrame

\* the "processing" reply returns; process_compression_request is called and
\* raises; the except block (line 214 / 430) awaits the apology
ProcessCompression(t) ==
    /\ handlers[t].pc = "reply_text"
    /\ started' = Append(started, [task |-> t, media_file |-> handlers[t].media_file,
                                   message |-> handlers[t].message,
                                   strategy |-> handlers[t].strategy,
                                   outcome |-> WiredRequestOutcome])
    /\ handlers' = [handlers EXCEPT ![t].pc = "report"]
    /\ UNCHANGED <<user_context, received>>
    /\ ControllerFrame

\* the apology returns; a callback handler then runs `del self.user_context[user_id]`
\* (line 383 / 404), whose KeyError is caught at line 360
CompressionReported(t) ==
    /\ handlers[t].pc = "report"
    /\ IF handlers[t].kind # "callback"
         THEN /\ handlers' = [handlers EXCEPT ![t].pc = "done"]
              /\ UNCHANGED user_context
         ELSE IF HasKey(user_context, handlers[t].user)
         THEN /\ user_context' = Del(user_context, handlers[t].user)
              /\ handlers' = [handlers EXCEPT ![t].pc = "done"]
         ELSE /\ handlers' = [handlers EXCEPT ![t].pc = "failed", ![t].error = "KeyError: user_id"]
              /\ UNCHANGED user_context
    /\ UNCHANGED <<started, received>>
    /\ ControllerFrame

NextController ==
    \/ \E u \in Users, f \in VideoFileIds : HandleVideoMessage(u, f)
    \/ \E u \in Users : HandleYoutubeUrl(u)
    \/ \E u \in Users, f \in VideoFileIds : HandleAudioMessage(u, f)
    \/ \E u \in Users, f \in VideoFileIds : HandleAnimationMessage(u, f)
    \/ \E u \in Users, choice \in Choices, f \in VideoFileIds : HandleCallbackQuery(u, choice, f)
    \/ \E t \in DOMAIN handlers : CallbackEdited(t)
    \/ \E t \in DOMAIN handlers : ProcessCompression(t)
    \/ \E t \in DOMAIN handlers : CompressionReported(t)

SpecController == Init /\ [][NextController]_vars

(* ------------------------------ DIContainer ----------------------------- *)
\* The container under any sequence of its five methods.  calls is the log of
\* the method calls with what each returned; a factory builds a fresh
\* instance at every invocation and does not raise.
MaxContainerOps == 4
Names == {"a", "b"}
FactoryIds == {"f1", "f2"}
ServiceObjects == {"s1"}

\* what the n-th invocation of `factory` through get(name) builds
Instance(factory, name, n) == [factory |-> factory, name |-> name, serial |-> n]

Invocations(name) == IF HasKey(invocations, name) THEN invocations[name] ELSE 0

\* get(name): the three lookups in their order, then ValueError
GetResult(name) ==
    IF HasKey(singletons, name)
    THEN [outcome |-> Returned(singletons[name]), created |-> FALSE, cache |-> FALSE]
    ELSE IF HasKey(services, name)
    THEN [outcome |-> Returned(services[name]), created |-> FALSE, cache |-> FALSE]
    ELSE IF HasKey(factories, name)
    THEN [outcome |-> Returned(Instance(factories[name].factory, name, Invocations(name) + 1)),
          created |-> TRUE, cache |-> factories[name].singleton]
    ELSE [outcome |-> Raised("ValueError", "Service not registered"),
          created |-> FALSE, cache |-> FALSE]

\* has(name)
HasResult(name) ==
    HasKey(services, name) \/ HasKey(factories, name) \/ HasKey(singletons, name)

Logged(name, args, out, created) ==
    [name |-> name, args |-> args, outcome |-> out, created |-> created]

ContainerFrame ==
    UNCHANGED <<pc, media, options, job, temp_path, files, exc, repo, notifications,
                result, cleaned, warned, controllerVars>>

ContainerCall(name, args, out, created) ==
    /\ Len(calls) < MaxContainerOps
    /\ invoked' = Call(name, args)
    /\ outcome' = out
    /\ calls' = Append(calls, Logged(name, args, out, created))
    /\ ContainerFrame

Register(name, service, singleton) ==
    /\ ContainerCall("register", <<name, service, singleton>>, Returned(None), FALSE)
    /\ IF singleton
         THEN singletons' = Put(singletons, name, service) /\ UNCHANGED services
         ELSE services' = Put(services, name, service) /\ UNCHANGED singletons
    /\ UNCHANGED <<factories, invocations>>

RegisterFactory(name, factory, singleton) ==
    /\ ContainerCall("register_factory", <<name, factory, singleton>>, Returned(None), FALSE)
    /\ factories' = Put(factories, name, [factory |-> factory, singleton |-> singleton])
    /\ UNCHANGED <<services, singletons, invocations>>

Get(name) ==
    LET g == GetResult(name) IN
    /\ ContainerCall("get", <<name>>, g.outcome, g.created)
    /\ invocations' = IF g.created THEN Put(invocations, name, Invocations(name) + 1)
                      ELSE invocations
    /\ singletons' = IF g.cache THEN Put(singletons, name, g.outcome.result) ELSE singletons
    /\ UNCHANGED <<services, factories>>

Has(name) ==
    /\ ContainerCall("has", <<name>>, Returned(HasResult(name)), FALSE)
    /\ UNCHANGED containerVars

Clear ==
    /\ ContainerCall("clear", <<>>, Returned(None), FALSE)
    /\ services' = EmptyDict
    /\ factories' = EmptyDict
    /\ singletons' = EmptyDict
    /\ UNCHANGED invocations

NextContainer ==
    \/ \E name \in Names, service \in ServiceObjects, singleton \in BOOLEAN :
          Register(name, service, singleton)
    \/ \E name \in Names, factory \in FactoryIds, singleton \in BOOLEAN :
          RegisterFactory(name, factory, singleton)
    \/ \E name \in Names : Get(name)
    \/ \E name \in Names : Has(name)
    \/ Clear

SpecContainer == Init /\ [][NextContainer]_vars

(* ------------------------------ views ---------------------------------- *)
Terminal == {COMPLETED, FAILED, CANCELLED}
Range(seq) == {seq[i] : i \in DOMAIN seq}
Done == pc = "done"
Succeeded == Done /\ outcome.kind = "returned" /\ outcome.result.success
NotificationsOf(kind) == {i \in DOMAIN notifications : notifications[i].kind = kind}
Undelivered(kind) == {i \in NotificationsOf(kind) : ~notifications[i].delivered}
ProgressPercents ==
    LET idx == NotificationsOf("progress") IN
    [k \in 1..Cardinality(idx) |->
        notifications[CHOOSE i \in idx : Cardinality({j \in idx : j <= i}) = k].progress]
\* the stages a cancelled job must not start
StageCalls == {"download_file", "compress", "upload_file"}
\* download_file returned false: the only source of this message
DownloadFailed == exc = "Failed to download file"

\* the edges of the status graph of section 4.1
StatusEdge(a, b) ==
    \/ a = b
    \/ a = "none" /\ b = PENDING
    \/ a = PENDING /\ b = DOWNLOADING
    \/ a = DOWNLOADING /\ b = COMPRESSING
    \/ a = COMPRESSING /\ b \in {UPLOADING, COMPLETED}
    \/ a = UPLOADING /\ b = COMPLETED
    \/ a \notin Terminal /\ b \in {FAILED, CANCELLED}

(* ------------------------------ claims --------------------------------- *)
\* C1: the job's status changes only along PENDING -> DOWNLOADING ->
\* COMPRESSING -> [UPLOADING] -> COMPLETED or from a non-terminal status to
\* FAILED / CANCELLED, and never leaves COMPLETED, FAILED or CANCELLED.
C1_StatusFollowsGraph == [][StatusEdge(job.status, job'.status)]_vars

\* C2: process_compression_request returns a CompressionResult and never
\* raises, whatever capability call fails and whatever the error text is.
C2_AlwaysReturnsResult == Done => outcome.kind = "returned"

\* C3: once the job was saved, on every exit path the cleanup step has run
\* and the job's temp file is not on disk.
C3_CleanupOnEveryExit ==
    (Done /\ Len(repo) >= 1) =>
        /\ cleaned
        /\ TempPath(job.job_id, media.filename) \notin files

\* C4: when a step after the initial save signalled an error with message m,
\* the job ends FAILED with error_message m, that state is the last one
\* persisted, an error notification carrying m is sent, and the caller gets
\* a failure result carrying m.  Stated for the plainest case of the claim:
\* m is not empty and the failure path's own repository update succeeded.
C4_FailurePathComplete ==
    (Done /\ Truthy(exc) /\ "send_error_notification" \in Range(calls)) =>
        /\ job.status = FAILED /\ job.error_message = exc
        /\ Len(repo) >= 1 /\ repo[Len(repo)].job = job
        /\ \E i \in NotificationsOf("error") : notifications[i].message = exc
        /\ outcome.kind = "returned"
        /\ ~outcome.result.success /\ outcome.result.error_message = exc

C6_CompressBeforeCompleted == job.status = COMPLETED => "compress" \in Range(calls)

\* C7 (scenario A): for a file of 1,000,000 bytes and strategy
\* "size_reduction", when every call succeeds the job ends COMPLETED with the
\* backend's compressed_size 500,000 and ratio 0.5, the result carries the
\* same values, and one completion notification is sent.
C7_BackendValuesUsed ==
    (Succeeded /\ media.file_size = 1000000 /\ options.strategy = "size_reduction") =>
        LET b == VideoCompress(media, options) IN
        /\ job.status = COMPLETED
        /\ b.compressed_size = 500000
        /\ job.compressed_size = b.compressed_size
        /\ RatioEq(job.compression_ratio, b.compression_ratio)
        /\ outcome.result.compressed_size = b.compressed_size
        /\ RatioEq(outcome.result.compression_ratio, b.compression_ratio)
        /\ Cardinality(NotificationsOf("completion")) = 1

\* C8: the progress values the compression backend reports during the
\* request reach the requester as progress notifications, one each, in order.
C8_ProgressForwarded == Succeeded => ProgressPercents = VideoProgressReports

C10_CancellationObserved ==
    [][job.status = CANCELLED =>
          /\ job'.status = CANCELLED
          /\ (calls' # calls => calls'[Len(calls')] \notin StageCalls)]_vars

(* --------------------------- claims C11..C20 --------------------------- *)
StageRank(status) ==
    CASE status = PENDING -> 1
      [] status = DOWNLOADING -> 2
      [] status = COMPRESSING -> 3
      [] status = UPLOADING -> 4
      [] OTHER -> 5
PersistedStatus(i) == repo[i].job.status
PersistedTerminals == {i \in DOMAIN repo : PersistedStatus(i) \in Terminal}
\* the repository writes of one job: a save of the PENDING job first, then
\* statuses of strictly later stages
WritesOrdered ==
    /\ repo # <<>> => repo[1].op = "save" /\ PersistedStatus(1) = PENDING
    /\ \A i, j \in DOMAIN repo : i < j =>
          /\ repo[j].op = "update"
          /\ StageRank(PersistedStatus(i)) < StageRank(PersistedStatus(j))
CallCount(name) == Cardinality({i \in DOMAIN calls : calls[i] = name})
TransitionCalls == {"start_compression", "complete_compression", "fail_compression"}
Clamped(p) == IF p < 0 THEN 0 ELSE IF p > 100 THEN 100 ELSE p

\* C11 (as claimed): the statuses written for one job are PENDING, then
\* DOWNLOADING, then COMPRESSING, then optionally UPLOADING, then exactly one
\* terminal status, with nothing after it.
C11_PersistedStagesOriginal ==
    (Done /\ repo # <<>>) =>
        /\ WritesOrdered
        /\ Cardinality(PersistedTerminals) = 1

\* C11 (amended): the statuses written for one job are strictly ordered by
\* stage, starting with the save of the PENDING job; at most one terminal
\* status is written and nothing is written after it; the terminal status is
\* there whenever the job's final state is the one the repository holds.
C11_PersistedStagesOrdered ==
    /\ WritesOrdered
    /\ Cardinality(PersistedTerminals) <= 1
    /\ \A i \in PersistedTerminals : i = Len(repo)
    /\ (Done /\ repo # <<>> /\ repo[Len(repo)].job = job) =>
          Cardinality(PersistedTerminals) = 1

C11_Witness ==
    /\ Done
    /\ Len(repo) = 4
    /\ PersistedStatus(3) = COMPRESSING
    /\ PersistedStatus(4) = COMPLETED

\* C12: start_compression, complete_compression and fail_compression called
\* on a COMPLETED, FAILED or CANCELLED job signal an error and leave the job
\* as it was.
C12_TerminalJobRejectsTransitions ==
    [][(job.status \in Terminal /\ calls' # calls /\ invoked'.name \in TransitionCalls) =>
          (job' = job /\ outcome'.kind = "raised")]_vars

\* C13: complete_compression called on a PENDING or DOWNLOADING job does not
\* make it COMPLETED.
C13_CompleteOnlyWhenCompressing ==
    [][(job.status \in {PENDING, DOWNLOADING} /\ calls' # calls
            /\ invoked'.name = "complete_compression") =>
          job'.status # COMPLETED]_vars

\* C14: the job's error_message is present if and only if its status is
\* FAILED; checked in the direction that a job carrying a non-empty
\* error_message is FAILED.
C14_ErrorMessageOnlyWhenFailed == Truthy(job.error_message) => job.status = FAILED

\* C15: the output fields are populated only when the status is COMPLETED; in
\* particular a FAILED job carries no output_file_path, compressed_size or
\* compression_ratio.
C15_FailedJobCarriesNoOutput ==
    job.status = FAILED =>
        /\ job.output_file_path = NoPath
        /\ job.compressed_size = 0
        /\ RatioEq(job.compression_ratio, Ratio(0, 1))

\* C16: whatever progress values are delivered for an active job, the
\* persisted progress never decreases.
C16_PersistedProgressMonotone ==
    \A i, j \in DOMAIN repo : i < j => repo[i].job.progress <= repo[j].job.progress

\* C17: update_progress never rejects its input and leaves progress equal to
\* the input clamped to [0,100]; after any sequence of the job's methods
\* 0 <= progress <= 100.
C17_ProgressClamped ==
    /\ job.progress >= 0 /\ job.progress <= 100
    /\ invoked.name = "update_progress" =>
          /\ outcome.kind = "returned"
          /\ job.progress = Clamped(invoked.progress)

C17_Witness ==
    /\ invoked.name = "update_progress"
    /\ invoked.progress = 150
    /\ job.progress = 100
    /\ Len(calls) = MaxJobOps

\* C18: on a job built around a valid MediaFile, complete_compression(output, c)
\* performs no division by zero and leaves compression_ratio * s = s - c,
\* where s is the media file's size.
C18_RatioWellDefined ==
    invoked.name = "complete_compression" =>
        /\ outcome.kind = "returned"
        /\ job.compression_ratio.num * media.file_size
              = (media.file_size - invoked.size) * job.compression_ratio.den

\* C19: when the initial save_job fails, nothing else is done for the
\* request: no file-storage call, no compression call, no notification, no
\* repository update, and nothing on disk.
C19_SaveFailureHasNoSideEffect ==
    (Done /\ repo = <<>>) =>
        /\ calls = <<"save_job">>
        /\ notifications = <<>>
        /\ files = {}
        /\ temp_path = NoPath
        /\ job.status = PENDING

C19_Witness ==
    /\ Done /\ repo = <<>>
    /\ outcome.kind = "raised" /\ outcome.msg = "repository unavailable"

\* C20: within one request the download, the compression and the upload are
\* each called at most once.
C20_NoStageRetried ==
    /\ CallCount("download_file") <= 1
    /\ CallCount("compress") <= 1
    /\ CallCount("upload_file") <= 1

C20_Witness ==
    /\ Done /\ DownloadFailed
    /\ CallCount("download_file") = 1

(* --------------------------- claims C21..C30 --------------------------- *)
\* a request that has bound its temp path and has not left yet
InFlight(r) == pc[r] \notin {"idle", "done"} /\ temp_path[r] # NoPath

\* C21: two requests running concurrently never have the same temp path, even
\* with the same filename or none, and the cleanup of one never removes the
\* file of another that is still running.
C21_TempPathsDistinct ==
    /\ [](\A r, q \in Requests :
            (r # q /\ temp_path[r] # NoPath /\ temp_path[q] # NoPath) =>
                temp_path[r] # temp_path[q])
    /\ [][\A r, q \in Requests :
            (r # q /\ cleaned'[r] /\ ~cleaned[r] /\ InFlight(q) /\ temp_path[q] \in files) =>
                temp_path[q] \in files']_vars

C21_Witness ==
    /\ media[1].filename = None /\ media[2].filename = None
    /\ cleaned[1] /\ temp_path[1] \notin files
    /\ InFlight(2) /\ temp_path[2] \in files

\* C22: CompressionResult(...) is constructed exactly when success comes with
\* a non-empty output_path or failure with a non-empty error_message; any
\* other combination raises the validation error and yields no result.
C22_ResultPairing ==
    invoked.name = "CompressionResult" =>
        LET a == invoked.args
            paired == \/ a.success /\ PathTruthy(a.output_path)
                      \/ ~a.success /\ Truthy(a.error_message)
        IN  /\ outcome.kind = "returned" <=> paired
            /\ outcome.kind = "returned" =>
                  /\ result.success = a.success
                  /\ result.output_path = a.output_path
                  /\ result.error_message = a.error_message
                  /\ outcome.result = result
            /\ outcome.kind # "returned" =>
                  /\ outcome.kind = "raised" /\ outcome.error = "ValueError"
                  /\ result = NoResult

C22_Witness ==
    /\ invoked.name = "CompressionResult"
    /\ ~invoked.args.success /\ invoked.args.error_message = ""
    /\ invoked.args.output_path # NoPath
    /\ outcome.kind = "raised"

\* C23: MediaFile(...) raises the validation error if and only if file_id is
\* empty, mime_type is empty or file_size <= 0, so a MediaFile that exists
\* has file_size > 0.
C23_MediaFileValidation ==
    invoked.name = "MediaFile" =>
        LET a == invoked.args
            invalid == \/ a.file_id \in {None, ""}
                       \/ a.mime_type \in {None, ""}
                       \/ a.file_size <= 0
        IN  /\ (outcome.kind = "raised" /\ outcome.error = "ValueError") <=> invalid
            /\ outcome.kind = "returned" <=> ~invalid
            /\ outcome.kind = "returned" =>
                  /\ media.file_size = a.file_size /\ media.file_size > 0
                  /\ media.file_id = a.file_id /\ media.mime_type = a.mime_type
            /\ outcome.kind = "raised" => media = NoMedia

C23_Witness ==
    /\ invoked.name = "MediaFile"
    /\ invoked.args.file_id = "F1" /\ invoked.args.mime_type = "video/mp4"
    /\ invoked.args.file_size = 0
    /\ outcome.kind = "raised" /\ outcome.msg = "file_size must be positive"

\* C24: completed_at is set if and only if the status is COMPLETED, FAILED or
\* CANCELLED, and started_at is set if and only if the job entered
\* COMPRESSING; stated for a job whose original_size is not 0, on which no
\* method raises.
C24_TimestampsMatchStatus ==
    ~CompleteRaises(job) =>
        /\ job.completed_at # 0 <=> job.status \in Terminal
        /\ job.started_at # 0 <=> "start_compression" \in Range(calls)

\* C25: once the job exists, no step changes its job_id, media_file,
\* compression_options or created_at, and a returned result carries the
\* job's id.
C25_IdentityImmutable ==
    /\ [][job.job_id \in JobIds =>
            /\ job'.job_id = job.job_id
            /\ job'.media_file = job.media_file
            /\ job'.compression_options = job.compression_options
            /\ job'.created_at = job.created_at]_vars
    /\ []((Done /\ outcome.kind = "returned") => outcome.result.job_id = job.job_id)

C25_Witness ==
    /\ Succeeded
    /\ job.job_id = 2 /\ outcome.result.job_id = 2
    /\ job.created_at = 1 /\ job.completed_at > 1

\* the result the failure path returns, or the error its construction raises
FailureOutcome ==
    IF ResultValid(FALSE, NoPath, exc)
    THEN Returned(CompressionResult(FALSE, job.job_id, NoPath, 0, 0, Ratio(0, 1), exc))
    ELSE Raised("ValueError", "error_message is required when success is False")

\* C26: once the cleanup step has run, the outcome and the job's status are
\* what the steps before it decided, whether or not the removal of the temp
\* file failed: the success result with a COMPLETED job, the failure path's
\* outcome with a FAILED job, and no error of the removal itself.
C26_CleanupFailureHarmless ==
    (Done /\ cleaned) =>
        /\ job.status \in {COMPLETED, FAILED}
        /\ job.status = COMPLETED => outcome = Returned(result)
        /\ (job.status = FAILED /\ NotificationsOf("error") # {}) => outcome = FailureOutcome
        /\ (job.status = FAILED /\ NotificationsOf("error") = {}) =>
              outcome.kind = "raised" /\ outcome.error = "Exception"

C26_Witness ==
    /\ Done /\ cleaned /\ warned
    /\ temp_path \in files
    /\ job.status = COMPLETED
    /\ outcome = Returned(result)

\* C27: download_file returns true if and only if the file is at the
\* destination after the call: the request goes on to COMPRESSING exactly
\* when the temp file is on disk, and takes the "Failed to download file"
\* path exactly when it is not.
C27_DownloadReportsExistence ==
    /\ pc = "update_compressing" => temp_path \in files
    /\ (pc = "fail_update" /\ DownloadFailed) => temp_path \notin files

\* C28: a COMPLETED job has progress 100; stated for a job whose
\* complete_compression returned (original_size is not 0).
C28_CompletedMeansFullProgress ==
    (job.status = COMPLETED /\ ~CompleteRaises(job)) => job.progress = 100

\* the ratio the claim assigns to each strategy
ClaimedRatio(strategy) ==
    IF strategy = "size_reduction" THEN Ratio(5, 10)
    ELSE IF strategy = "quality_preservation" THEN Ratio(2, 10)
    ELSE Ratio(3, 10)

\* C29: the video backend answers every strategy with a success result whose
\* ratio is 0.5 for "size_reduction", 0.2 for "quality_preservation" and 0.3
\* otherwise, and whose compressed_size is floor(file_size * (1 - ratio)).
C29_BackendStrategyTable ==
    invoked.name = "compress" =>
        LET a == invoked.args
            r == ClaimedRatio(a.strategy)
        IN  /\ outcome.kind = "returned" /\ result.success
            /\ RatioEq(result.compression_ratio, r)
            /\ result.compressed_size = (a.file_size * (r.den - r.num)) \div r.den

\* C30: a returned result agrees with the job: success with COMPLETED,
\* failure with FAILED, and the last state the repository holds has that
\* status.
C30_ResultAgreesWithJob ==
    (Done /\ outcome.kind = "returned") =>
        /\ outcome.result.success <=> job.status = COMPLETED
        /\ ~outcome.result.success <=> job.status = FAILED
        /\ repo # <<>> /\ repo[Len(repo)].job.status = job.status

C30_Witness ==
    /\ Done /\ outcome.kind = "returned"
    /\ ~outcome.result.success
    /\ job.status = FAILED
    /\ repo[Len(repo)].job.status = FAILED

(* --------------------------- claims C31..C38 --------------------------- *)
\* C31: for a request whose job was saved, exactly one terminal notification
\* is sent: a completion notification exactly when a success result is
\* returned, an error notification exactly when a failure result is returned.
C31_OneTerminalNotification ==
    (Done /\ repo # <<>>) =>
        /\ Cardinality(NotificationsOf("completion")) + Cardinality(NotificationsOf("error")) = 1
        /\ NotificationsOf("completion") # {} <=> Succeeded
        /\ NotificationsOf("error") # {} <=> (outcome.kind = "returned" /\ ~outcome.result.success)

\* C32: the percent carried by a progress notification is the progress stored
\* on the job and persisted in the same _handle_progress call, hence within
\* [0,100].
C32_NotifiedProgressIsStored ==
    /\ \A i \in NotificationsOf("progress") :
          notifications[i].progress >= 0 /\ notifications[i].progress <= 100
    /\ (pc = "progress_idle" /\ outcome.kind = "returned") =>
          /\ notifications[Len(notifications)].progress = job.progress
          /\ notifications[Len(notifications)].progress = repo[Len(repo)].job.progress

\* C33: the success result's compression_ratio equals
\* (original_size - compressed_size) / original_size of its own sizes, and
\* equals the compression_ratio of the completed job.
C33_ResultRatioConsistent ==
    Succeeded =>
        LET r == outcome.result IN
        /\ RatioEq(r.compression_ratio, Ratio(r.original_size - r.compressed_size, r.original_size))
        /\ RatioEq(r.compression_ratio, job.compression_ratio)

\* C34: every capability the wired orchestrator calls is a real object, so a
\* request triggered by an audio or video message ends with a
\* CompressionResult and not with an exception at the first repository call.
C34_WiredRequestReturns ==
    \A i \in DOMAIN started : started[i].outcome.kind = "returned"

\* the requests started by button presses
CallbackRequests == {i \in DOMAIN started : handlers[started[i].task].kind = "callback"}

\* C35: a stored video selection leads to at most one compression request,
\* and no callback handler fails when it removes the context.
C35_OneRequestPerSelection ==
    /\ \A i, j \in CallbackRequests : started[i].message = started[j].message => i = j
    /\ \A t \in DOMAIN handlers : handlers[t].error # "KeyError: user_id"

\* the selections (video or YouTube messages) of user u, and those a callback
\* has taken up
Selections(u) ==
    {i \in DOMAIN received : received[i].user = u /\ received[i].kind \in {"video", "youtube"}}
TakenUp(m) == \E t \in DOMAIN handlers : handlers[t].kind = "callback" /\ handlers[t].message = m

\* C36: the latest selection of a user stays in user_context until a callback
\* takes it up, whatever earlier callbacks do when they finish, and no press
\* is answered with "Session expired" while it waits.
C36_LaterSelectionKept ==
    \A u \in Users :
        \A m \in Selections(u) :
            ((\A k \in Selections(u) : k <= m) /\ ~TakenUp(m)) =>
                /\ HasKey(user_context, u) /\ user_context[u].message = m
                /\ \A t \in DOMAIN handlers : handlers[t].pc # "expired"

\* C37: a request started by the button "<choice>_F" is for the media file
\* with file_id F.
C37_CallbackCompressesNamedFile ==
    \A i \in CallbackRequests :
        started[i].media_file.file_id = handlers[started[i].task].data

\* the logged calls that change what `name` is registered as
Registers(i, name) ==
    \/ calls[i].name = "clear"
    \/ calls[i].name \in {"register", "register_factory"} /\ calls[i].args[1] = name
\* the get(name) calls governed by the registration logged at i: those after
\* it with no later registration of the name or clear in between
GetsUnder(i, name) ==
    {j \in DOMAIN calls :
        /\ j > i
        /\ calls[j].name = "get" /\ calls[j].args[1] = name
        /\ \A k \in DOMAIN calls : (i < k /\ k < j) => ~Registers(k, name)}
FactoryRegistered(i, name, singleton) ==
    /\ calls[i].name = "register_factory"
    /\ calls[i].args[1] = name
    /\ calls[i].args[3] = singleton

\* C38: a singleton factory is invoked at most once and every get returns the
\* same instance; a non-singleton factory is invoked by every get; get of a
\* name never registered, or after clear, raises; has(name) is true exactly
\* when get(name) would succeed.
C38_ContainerLifetimes ==
    \A name \in Names :
        /\ \A i \in DOMAIN calls :
              /\ FactoryRegistered(i, name, TRUE) =>
                    /\ Cardinality({j \in GetsUnder(i, name) : calls[j].created}) <= 1
                    /\ \A j, k \in GetsUnder(i, name) : calls[j].outcome = calls[k].outcome
              /\ FactoryRegistered(i, name, FALSE) =>
                    \A j \in GetsUnder(i, name) : calls[j].created
              /\ calls[i].name = "clear" =>
                    \A j \in GetsUnder(i, name) : calls[j].outcome.kind = "raised"
        /\ \A j \in DOMAIN calls :
              (/\ calls[j].name = "get" /\ calls[j].args[1] = name
               /\ \A k \in 1..(j - 1) : ~Registers(k, name))
                  => calls[j].outcome.error = "ValueError"
        /\ HasResult(name) <=> GetResult(name).outcome.kind = "returned"

====
